---- MODULE Spec2Model ----
(***************************************************************************)
(* Model of the traffic-capture logger (package rabbitmq, the HAR-shaped   *)
(* Logger publishing to an AMQP queue) and of its JSON codec.              *)
(*                                                                         *)
(* Go strings and []byte are sequences of bytes (0..255).  A JSON string   *)
(* on the wire is the sequence of bytes of its quoted literal without the  *)
(* surrounding quotes; a JSON object is a record whose domain is the set   *)
(* of keys that were written; a JSON array is a sequence.  MIME types,     *)
(* parameter names and other short ASCII tokens are TLA+ strings.          *)
(***************************************************************************)
EXTENDS Integers, Sequences, FiniteSets, TLC

\* ------------------------------------------------------------------ bounds
MaxTextLen == 2
MaxValueLen == 1
MaxBodyLen == 3
NumTasks == 2
MaxDocs == 2
MaxOptions == 2

\* ------------------------------------------------------- byte-level helpers
RECURSIVE SeqsUpTo(_, _)
SeqsUpTo(S, n) ==
  IF n = 0 THEN {<<>>}
  ELSE LET shorter == SeqsUpTo(S, n - 1)
       IN shorter \cup {Append(s, b) : s \in {t \in shorter : Len(t) = n - 1}, b \in S}

Tail2(s) == SubSeq(s, 3, Len(s))
Tail3(s) == SubSeq(s, 4, Len(s))
Tail4(s) == SubSeq(s, 5, Len(s))

IsCont(b) == b >= 128 /\ b <= 191

\* Size in bytes of the well-formed UTF-8 encoding that starts s, or 0 when s
\* starts with an ill-formed sequence (unicode/utf8: first/acceptRanges).
RuneSize(s) ==
  LET b == s[1] IN
  IF b < 128 THEN 1
  ELSE IF b >= 194 /\ b <= 223
       THEN IF Len(s) >= 2 /\ IsCont(s[2]) THEN 2 ELSE 0
  ELSE IF b >= 224 /\ b <= 239
       THEN IF /\ Len(s) >= 3
               /\ s[2] >= (IF b = 224 THEN 160 ELSE 128)
               /\ s[2] <= (IF b = 237 THEN 159 ELSE 191)
               /\ IsCont(s[3])
            THEN 3 ELSE 0
  ELSE IF b >= 240 /\ b <= 244
       THEN IF /\ Len(s) >= 4
               /\ s[2] >= (IF b = 240 THEN 144 ELSE 128)
               /\ s[2] <= (IF b = 244 THEN 143 ELSE 191)
               /\ IsCont(s[3]) /\ IsCont(s[4])
            THEN 4 ELSE 0
  ELSE 0

\* utf8.ValidString
RECURSIVE ValidString(_)
ValidString(s) ==
  IF Len(s) = 0 THEN TRUE
  ELSE LET n == RuneSize(s) IN
       IF n = 0 THEN FALSE ELSE ValidString(SubSeq(s, n + 1, Len(s)))

\* ------------------------------------------------- encoding/json strings
HexDigit(v) == IF v < 10 THEN 48 + v ELSE 97 + (v - 10)
HexVal(c) ==
  IF c >= 48 /\ c <= 57 THEN c - 48
  ELSE IF c >= 97 /\ c <= 102 THEN c - 87
  ELSE IF c >= 65 /\ c <= 70 THEN c - 55
  ELSE -1

\* \uXXXX escape of a code point below 0x10000
UEscape(cp) ==
  <<92, 117, HexDigit(cp \div 4096), HexDigit((cp \div 256) % 16),
    HexDigit((cp \div 16) % 16), HexDigit(cp % 16)>>

\* UTF-8 encoding of a code point below 0x10000
EncodeRune(cp) ==
  IF cp < 128 THEN <<cp>>
  ELSE IF cp < 2048 THEN <<192 + (cp \div 64), 128 + (cp % 64)>>
  ELSE <<224 + (cp \div 4096), 128 + ((cp \div 64) % 64), 128 + (cp % 64)>>

\* The body of the string literal the encoder writes for the Go string s:
\* quote and backslash are escaped, control characters and the HTML
\* characters are written as \u00XX, every byte that does not start a
\* well-formed UTF-8 sequence is replaced by the escape of U+FFFD.
RECURSIVE Quote(_)
Quote(s) ==
  IF Len(s) = 0 THEN <<>>
  ELSE LET b == s[1]
           n == RuneSize(s)
       IN IF b = 34 \/ b = 92 THEN <<92, b>> \o Quote(Tail(s))
          ELSE IF b < 32 \/ b = 60 \/ b = 62 \/ b = 38
               THEN UEscape(b) \o Quote(Tail(s))
          ELSE IF n = 0 THEN UEscape(65533) \o Quote(Tail(s))
          ELSE SubSeq(s, 1, n) \o Quote(SubSeq(s, n + 1, Len(s)))

\* The Go string the decoder produces for the body of a string literal.
RECURSIVE Unquote(_)
Unquote(w) ==
  IF Len(w) = 0 THEN <<>>
  ELSE IF w[1] # 92 THEN <<w[1]>> \o Unquote(Tail(w))
  ELSE IF Len(w) >= 6 /\ w[2] = 117
       THEN EncodeRune(4096 * HexVal(w[3]) + 256 * HexVal(w[4])
                       + 16 * HexVal(w[5]) + HexVal(w[6]))
            \o Unquote(SubSeq(w, 7, Len(w)))
  ELSE IF Len(w) >= 2 THEN <<w[2]>> \o Unquote(Tail2(w))
  ELSE <<>>

\* ------------------------------------------------------ encoding/base64
B64Char(i) ==
  IF i < 26 THEN 65 + i
  ELSE IF i < 52 THEN 97 + (i - 26)
  ELSE IF i < 62 THEN 48 + (i - 52)
  ELSE IF i = 62 THEN 43 ELSE 47

B64Val(c) ==
  IF c >= 65 /\ c <= 90 THEN c - 65
  ELSE IF c >= 97 /\ c <= 122 THEN c - 71
  ELSE IF c >= 48 /\ c <= 57 THEN c + 4
  ELSE IF c = 43 THEN 62
  ELSE IF c = 47 THEN 63
  ELSE -1

\* base64.StdEncoding.EncodeToString
RECURSIVE B64Encode(_)
B64Encode(s) ==
  IF Len(s) = 0 THEN <<>>
  ELSE IF Len(s) = 1
       THEN <<B64Char(s[1] \div 4), B64Char((s[1] % 4) * 16), 61, 61>>
  ELSE IF Len(s) = 2
       THEN <<B64Char(s[1] \div 4), B64Char((s[1] % 4) * 16 + s[2] \div 16),
              B64Char((s[2] % 16) * 4), 61>>
  ELSE <<B64Char(s[1] \div 4), B64Char((s[1] % 4) * 16 + s[2] \div 16),
         B64Char((s[2] % 16) * 4 + s[3] \div 64), B64Char(s[3] % 64)>>
       \o B64Encode(Tail3(s))

\* base64.StdEncoding.DecodeString: [ok, bytes]
RECURSIVE B64Decode(_)
B64Decode(w) ==
  IF Len(w) = 0 THEN [ok |-> TRUE, bytes |-> <<>>]
  ELSE IF Len(w) < 4 THEN [ok |-> FALSE, bytes |-> <<>>]
  ELSE LET a == B64Val(w[1])
           b == B64Val(w[2])
           c == B64Val(w[3])
           d == B64Val(w[4])
           last == Len(w) = 4
       IN IF a < 0 \/ b < 0 THEN [ok |-> FALSE, bytes |-> <<>>]
          ELSE IF w[3] = 61
               THEN IF last /\ w[4] = 61 /\ b % 16 = 0
                    THEN [ok |-> TRUE, bytes |-> <<a * 4 + b \div 16>>]
                    ELSE [ok |-> FALSE, bytes |-> <<>>]
          ELSE IF c < 0 THEN [ok |-> FALSE, bytes |-> <<>>]
          ELSE IF w[4] = 61
               THEN IF last /\ c % 4 = 0
                    THEN [ok |-> TRUE,
                          bytes |-> <<a * 4 + b \div 16, (b % 16) * 16 + c \div 4>>]
                    ELSE [ok |-> FALSE, bytes |-> <<>>]
          ELSE IF d < 0 THEN [ok |-> FALSE, bytes |-> <<>>]
          ELSE LET rest == B64Decode(Tail4(w))
               IN [ok |-> rest.ok,
                   bytes |-> <<a * 4 + b \div 16, (b % 16) * 16 + c \div 4,
                               (c % 4) * 64 + d>> \o rest.bytes]

\* ------------------------------------------------------------ PostData codec
\* Param: the four fields of the struct; an empty field is the zero string.
Param(name, value, filename, ctype) ==
  [Name |-> name, Value |-> value, Filename |-> filename, ContentType |-> ctype]

NewPostData(mt, params, text) == [MimeType |-> mt, Params |-> params, Text |-> text]

\* json.Marshal of a Param: name always, the others omitempty.
ParamJSON(q) ==
  LET base == [name |-> Quote(q.Name)]
      v == IF q.Value = <<>> THEN base ELSE base @@ [value |-> Quote(q.Value)]
      f == IF q.Filename = "" THEN v ELSE v @@ [fileName |-> q.Filename]
  IN IF q.ContentType = "" THEN f ELSE f @@ [contentType |-> q.ContentType]

\* json.Unmarshal into a fresh Param.
ParamFromJSON(j) ==
  Param(IF "name" \in DOMAIN j THEN Unquote(j.name) ELSE <<>>,
        IF "value" \in DOMAIN j THEN Unquote(j.value) ELSE <<>>,
        IF "fileName" \in DOMAIN j THEN j.fileName ELSE "",
        IF "contentType" \in DOMAIN j THEN j.contentType ELSE "")

ParamsJSON(ps) == [i \in 1..Len(ps) |-> ParamJSON(ps[i])]
ParamsFromJSON(js) == [i \in 1..Len(js) |-> ParamFromJSON(js[i])]

\* The JSON token null.
JSONNull == [null |-> TRUE]

\* A nil byte slice: what a failed Marshal returns.
Nil == [nil |-> TRUE]

\* Variant: the text is always written as a string, without the UTF-8 test.
PostDataMarshalJSON_AlwaysLiteral(p) ==
  [mimeType |-> p.MimeType, params |-> ParamsJSON(p.Params), text |-> Quote(p.Text)]

\* (*PostData).MarshalJSON
PostDataMarshalJSON(p) ==
  IF ValidString(p.Text)
  THEN [mimeType |-> p.MimeType, params |-> ParamsJSON(p.Params),
        text |-> Quote(p.Text)]
  ELSE [mimeType |-> p.MimeType, params |-> ParamsJSON(p.Params),
        text |-> B64Encode(p.Text), encoding |-> "base64"]

\* (*PostData).UnmarshalJSON after the test for null: [err, p]
PostDataFromObject(p, data) ==
  LET enc == IF "encoding" \in DOMAIN data THEN data.encoding ELSE ""
  IN IF enc # "base64"
     THEN [err |-> FALSE,
           p |-> [MimeType |-> IF "mimeType" \in DOMAIN data
                               THEN data.mimeType ELSE p.MimeType,
                  Params |-> IF "params" \in DOMAIN data
                             THEN ParamsFromJSON(data.params) ELSE p.Params,
                  Text |-> IF "text" \in DOMAIN data
                           THEN Unquote(data.text) ELSE p.Text]]
     ELSE LET txt == IF "text" \in DOMAIN data
                     THEN B64Decode(Unquote(data.text))
                     ELSE [ok |-> TRUE, bytes |-> <<>>]
          IN IF ~txt.ok THEN [err |-> TRUE, p |-> p]
             ELSE [err |-> FALSE,
                   p |-> [MimeType |-> IF "mimeType" \in DOMAIN data
                                       THEN data.mimeType ELSE "",
                          Params |-> IF "params" \in DOMAIN data
                                     THEN ParamsFromJSON(data.params) ELSE <<>>,
                          Text |-> txt.bytes]]

\* (*PostData).UnmarshalJSON(data) on the destination p: [err, p]
\* Variant: null resets the destination to the zero PostData.
PostDataUnmarshalJSON_NullResets(p, data) ==
  IF data = JSONNull THEN [err |-> FALSE, p |-> NewPostData("", <<>>, <<>>)]
  ELSE PostDataFromObject(p, data)

PostDataUnmarshalJSON(p, data) ==
  IF data = JSONNull THEN [err |-> FALSE, p |-> p]
  ELSE PostDataFromObject(p, data)

\* -------------------------------------------------------------- Content codec
\* Content: the four fields of the struct.
NewContent(size, mt, text, enc) ==
  [Size |-> size, MimeType |-> mt, Text |-> text, Encoding |-> enc]

\* json.Marshal of a contentJSON: size and mimeType always, the others omitempty.
ContentJSONMarshal(cj) ==
  LET base == [size |-> cj.Size, mimeType |-> cj.MimeType]
      t == IF cj.Text = <<>> THEN base ELSE base @@ [text |-> Quote(cj.Text)]
  IN IF cj.Encoding = "" THEN t ELSE t @@ [encoding |-> cj.Encoding]

\* json.Unmarshal into a fresh contentJSON.
ContentJSONUnmarshal(data) ==
  IF data = JSONNull THEN NewContent(0, "", <<>>, "")
  ELSE NewContent(IF "size" \in DOMAIN data THEN data.size ELSE 0,
                  IF "mimeType" \in DOMAIN data THEN data.mimeType ELSE "",
                  IF "text" \in DOMAIN data THEN Unquote(data.text) ELSE <<>>,
                  IF "encoding" \in DOMAIN data THEN data.encoding ELSE "")

\* Variant: the encoding is chosen by the UTF-8 test, as for a PostData.
ContentMarshalJSON_ByValidity(c) ==
  IF ValidString(c.Text)
  THEN [err |-> FALSE,
        json |-> ContentJSONMarshal(NewContent(c.Size, c.MimeType, c.Text, ""))]
  ELSE [err |-> FALSE,
        json |-> ContentJSONMarshal(
                   NewContent(c.Size, c.MimeType, B64Encode(c.Text), "base64"))]

\* Content.MarshalJSON: [err, json]
ContentMarshalJSON(c) ==
  IF c.Encoding = "base64"
  THEN [err |-> FALSE,
        json |-> ContentJSONMarshal(
                   NewContent(c.Size, c.MimeType, B64Encode(c.Text), c.Encoding))]
  ELSE IF c.Encoding = ""
  THEN [err |-> FALSE,
        json |-> ContentJSONMarshal(
                   NewContent(c.Size, c.MimeType, c.Text, c.Encoding))]
  ELSE [err |-> TRUE, json |-> Nil]

\* (*Content).UnmarshalJSON(data) on the destination c: [err, p]
ContentUnmarshalJSON(c, data) ==
  LET cj == ContentJSONUnmarshal(data)
  IN IF cj.Encoding = "base64"
     THEN LET txt == B64Decode(cj.Text)
          IN IF ~txt.ok THEN [err |-> TRUE, p |-> c]
             ELSE [err |-> FALSE,
                   p |-> NewContent(cj.Size, cj.MimeType, txt.bytes, cj.Encoding)]
     ELSE IF cj.Encoding = ""
     THEN [err |-> FALSE,
           p |-> NewContent(cj.Size, cj.MimeType, cj.Text, cj.Encoding)]
     ELSE [err |-> TRUE, p |-> c]

\* ------------------------------------------------------- HTTP request inputs
None == [none |-> TRUE]

Tasks == 1..NumTasks

\* ctx.ID(): the proxy gives every request/response cycle its own ID.
ContextID(p) == [id |-> p]

\* The parts a multipart/form-data body can carry.  A multipart body is the
\* sequence of its frames: frame k > 0 is the part MultipartParts[k] (its
\* headers and content), frame 0 is the closing delimiter.
MultipartParts ==
  << Param(<<97>>, <<49>>, "", ""),
     Param(<<102>>, <<255>>, "f.bin", "application/octet-stream") >>

\* An http.Request as the hook sees it.  Body is what a read of req.Body to
\* end-of-stream would still yield; BodyFails makes that read fail.  Header
\* holds the header fields, one [Name, Value] per value in the order they
\* arrived, and Query the pairs of the URL's query in the order of the URL.
HTTPRequest(skip, method, host, ct, chunked, body, fails) ==
  [Skip |-> skip, Method |-> method, Host |-> host, ContentType |-> ct,
   ContentLength |-> IF chunked THEN -1 ELSE Len(body), Chunked |-> chunked,
   Body |-> body, BodyFails |-> fails,
   Header |-> IF ct = "" THEN <<>>
              ELSE <<[Name |-> "Content-Type", Value |-> ct]>>,
   Query |-> <<>>]

\* The requests task p may be handed; the raw body carries a fingerprint of p.
Requests(p) ==
  { HTTPRequest(TRUE, "POST", "probe", "text/plain", FALSE, <<97>>, FALSE),
    HTTPRequest(FALSE, "GET", "a.test", "", FALSE, <<>>, FALSE),
    HTTPRequest(FALSE, "POST", "a.test", "application/octet-stream", FALSE,
                <<255, 48 + p>>, FALSE),
    HTTPRequest(FALSE, "POST", "b.test", "application/x-www-form-urlencoded",
                FALSE, <<97, 61, 37>>, FALSE) }

\* ------------------------------------------------- standard-library decoders
\* mime.ParseMediaType on the Content-Type values the requests carry:
\* [err, mt]; a parameter without a value is a parse error.
ParseMediaType(ct) ==
  IF ct = "multipart/form-data; boundary=x"
  THEN [err |-> FALSE, mt |-> "multipart/form-data"]
  ELSE IF ct = "text/plain; charset" \/ ct = ""
       THEN [err |-> TRUE, mt |-> ""]
  ELSE [err |-> FALSE, mt |-> ct]

RECURSIVE IndexOf(_, _, _)
IndexOf(s, c, i) ==
  IF i > Len(s) THEN 0 ELSE IF s[i] = c THEN i ELSE IndexOf(s, c, i + 1)

RECURSIVE SplitOn(_, _)
SplitOn(s, c) ==
  LET i == IndexOf(s, c, 1) IN
  IF i = 0 THEN <<s>>
  ELSE <<SubSeq(s, 1, i - 1)>> \o SplitOn(SubSeq(s, i + 1, Len(s)), c)

\* url.QueryUnescape: [ok, bytes]
RECURSIVE QueryUnescape(_)
QueryUnescape(s) ==
  IF Len(s) = 0 THEN [ok |-> TRUE, bytes |-> <<>>]
  ELSE IF s[1] = 37
       THEN IF Len(s) >= 3 /\ HexVal(s[2]) >= 0 /\ HexVal(s[3]) >= 0
            THEN LET rest == QueryUnescape(Tail3(s))
                 IN [ok |-> rest.ok,
                     bytes |-> <<16 * HexVal(s[2]) + HexVal(s[3])>> \o rest.bytes]
            ELSE [ok |-> FALSE, bytes |-> <<>>]
  ELSE LET rest == QueryUnescape(Tail(s))
       IN [ok |-> rest.ok,
           bytes |-> <<IF s[1] = 43 THEN 32 ELSE s[1]>> \o rest.bytes]

\* url.ParseQuery: [err, pairs], the name/value pairs in the order of the body.
RECURSIVE ParsePairs(_)
ParsePairs(segs) ==
  IF Len(segs) = 0 THEN [err |-> FALSE, pairs |-> <<>>]
  ELSE LET seg == Head(segs)
           rest == ParsePairs(Tail(segs))
           i == IndexOf(seg, 61, 1)
           k == QueryUnescape(IF i = 0 THEN seg ELSE SubSeq(seg, 1, i - 1))
           v == QueryUnescape(IF i = 0 THEN <<>> ELSE SubSeq(seg, i + 1, Len(seg)))
       IN IF Len(seg) = 0 THEN rest
          ELSE IF ~k.ok \/ ~v.ok THEN [err |-> TRUE, pairs |-> rest.pairs]
          ELSE [err |-> rest.err,
                pairs |-> <<[Name |-> k.bytes, Value |-> v.bytes]>> \o rest.pairs]

ParseQuery(s) == ParsePairs(SplitOn(s, 38))

\* The orders in which a range over a Go map with key set K may visit it.
MapOrders(K) ==
  {f \in [1..Cardinality(K) -> K] : \A i, j \in DOMAIN f : i # j => f[i] # f[j]}

\* The Params the range over url.Values appends when it visits the names in
\* the order ord: per name, its values in body order.
RECURSIVE ParamsInOrder(_, _)
ParamsInOrder(pairs, ord) ==
  IF Len(ord) = 0 THEN <<>>
  ELSE LET mine == SelectSeq(pairs, LAMBDA q : q.Name = Head(ord))
       IN [i \in 1..Len(mine) |-> Param(mine[i].Name, mine[i].Value, "", "")]
          \o ParamsInOrder(pairs, Tail(ord))

\* The elements a range over a map of names to value lists appends when it
\* visits the names in the order ord: per name, its values in their order.
RECURSIVE ValuesInOrder(_, _)
ValuesInOrder(pairs, ord) ==
  IF Len(ord) = 0 THEN <<>>
  ELSE SelectSeq(pairs, LAMBDA q : q.Name = Head(ord))
         \o ValuesInOrder(pairs, Tail(ord))

\* Variant: the parts are collected last part first.
RECURSIVE ReadParts_Reversed(_, _)
ReadParts_Reversed(br, params) ==
  IF Len(br) = 0 THEN [err |-> TRUE, params |-> params]
  ELSE IF Head(br) = 0 THEN [err |-> FALSE, params |-> params]
  ELSE IF Head(br) \notin 1..Len(MultipartParts) THEN [err |-> TRUE, params |-> params]
  ELSE ReadParts_Reversed(Tail(br), <<MultipartParts[Head(br)]>> \o params)

\* multipart.Reader over br: NextPart until io.EOF (the closing delimiter);
\* a stream that ends before the closing delimiter, or a frame that is no
\* part, is an error.
\* [err, params]: params holds what had been appended when the loop ended.
RECURSIVE ReadParts(_, _)
ReadParts(br, params) ==
  IF Len(br) = 0 THEN [err |-> TRUE, params |-> params]
  ELSE IF Head(br) = 0 THEN [err |-> FALSE, params |-> params]
  ELSE IF Head(br) \notin 1..Len(MultipartParts) THEN [err |-> TRUE, params |-> params]
  ELSE ReadParts(Tail(br), Append(params, MultipartParts[Head(br)]))

\* ------------------------------------------------------------- messageview
\* mv.SnapshotRequest(req): reads req.Body to the end into the view's buffer
\* and puts a fresh reader over the same bytes back as req.Body.
SnapshotRequest(r) ==
  IF r.BodyFails THEN [err |-> TRUE, buf |-> <<>>, Body |-> <<>>]
  ELSE [err |-> FALSE, buf |-> r.Body, Body |-> r.Body]

\* mv.BodyReader(): a reader over the snapshot, independent of req.Body.
BodyReader(mv) == mv.buf

\* ------------------------------------------------------- Body Materializer
\* postData, the snapshot of the body: mv.SnapshotRequest(req) and then
\* mv.BodyReader().  [err, br, Body]; Body is req.Body afterwards.
\* Variant: the decoders read req.Body itself and leave it drained.
SnapshotBody_ReadsRequestBody(r) ==
  [err |-> r.BodyFails, br |-> IF r.BodyFails THEN <<>> ELSE r.Body, Body |-> <<>>]

SnapshotBody(r) ==
  LET mv == SnapshotRequest(r)
  IN [err |-> mv.err, br |-> IF mv.err THEN <<>> ELSE BodyReader(mv), Body |-> mv.Body]

\* return nil, err: the PostData built so far is dropped.
\* Variant: the PostData built so far is returned along with the error.
Failure_KeepsPartial(pd, body) ==
  [pd |-> pd, err |-> TRUE, snap |-> TRUE, Body |-> body]

Failure(pd, body) ==
  [pd |-> None, err |-> TRUE, snap |-> TRUE, Body |-> body]

\* postData from the snapshot on: the body is snapshotted and decoded by the
\* media type mt into pd.
postDataDecode(r, pd) ==
  LET s == SnapshotBody(r)
  IN IF s.err THEN {Failure(pd, s.Body)}
     ELSE IF pd.MimeType = "multipart/form-data"
          THEN LET parts == ReadParts(s.br, <<>>)
                   got == [pd EXCEPT !.Params = parts.params]
               IN IF parts.err THEN {Failure(got, s.Body)}
                  ELSE {[pd |-> got, err |-> FALSE, snap |-> TRUE, Body |-> s.Body]}
     ELSE IF pd.MimeType = "application/x-www-form-urlencoded"
          THEN LET vs == ParseQuery(s.br)
                   names == {vs.pairs[i].Name : i \in 1..Len(vs.pairs)}
               IN IF vs.err THEN {Failure(pd, s.Body)}
                  ELSE {[pd |-> [pd EXCEPT
                                   !.Params = ParamsInOrder(vs.pairs, ord)],
                         err |-> FALSE, snap |-> TRUE, Body |-> s.Body]
                        : ord \in MapOrders(names)}
     ELSE {[pd |-> [pd EXCEPT !.Text = s.br],
            err |-> FALSE, snap |-> TRUE, Body |-> s.Body]}

\* postData after the test for a body: the media type, then the policy.
\* Variant: the body is decoded whatever logBody says.
postDataCapture_IgnoresPolicy(r, logBody) ==
  LET parsed == ParseMediaType(r.ContentType)
      mt == IF parsed.err THEN r.ContentType ELSE parsed.mt
  IN postDataDecode(r, NewPostData(mt, <<>>, <<>>))

postDataCapture(r, logBody) ==
  LET parsed == ParseMediaType(r.ContentType)
      mt == IF parsed.err THEN r.ContentType ELSE parsed.mt
      pd == NewPostData(mt, <<>>, <<>>)
  IN IF ~logBody
     THEN {[pd |-> pd, err |-> FALSE, snap |-> FALSE, Body |-> r.Body]}
     ELSE postDataDecode(r, pd)

\* postData(req, logBody): the results the call may have.  pd is None for a
\* nil *PostData; snap tells whether the body was snapshotted; Body is
\* req.Body afterwards.
\* Variant: no test for a body before the capture.
postData_NoLengthTest(r, logBody) == postDataCapture(r, logBody)

postData(r, logBody) ==
  IF r.ContentLength <= 0 /\ ~r.Chunked
  THEN {[pd |-> None, err |-> FALSE, snap |-> FALSE, Body |-> r.Body]}
  ELSE postDataCapture(r, logBody)

\* proxyutil.RequestHeader(req).Map(): the header fields as a map from a name
\* to its values.
RequestHeaderMap(r) == r.Header

\* headers(hs): one Header per value, the names in the order the range over
\* the map visits them.  The set of the sequences the call may return.
headers(hs) ==
  {ValuesInOrder(hs, ord) : ord \in MapOrders({hs[i].Name : i \in 1..Len(hs)})}

\* NewRequest, the range over req.URL.Query(): the sequences it may build.
QueryStrings(r) ==
  {ValuesInOrder(r.Query, ord) :
     ord \in MapOrders({r.Query[i].Name : i \in 1..Len(r.Query)})}

\* NewRequest(req, withBody): [hreq, err, snap, Body, pd]; hreq is None on
\* error, and pd is the PostData that postData returned.
NewRequest(r, withBody) ==
  {[hreq |-> IF res.err THEN None
             ELSE [Method |-> r.Method, HeadersSize |-> -1,
                   BodySize |-> r.ContentLength, Headers |-> hs,
                   QueryString |-> qs, PostData |-> res.pd],
    err |-> res.err, snap |-> res.snap, Body |-> res.Body, pd |-> res.pd]
   : res \in postData(r, withBody), hs \in headers(RequestHeaderMap(r)),
     qs \in QueryStrings(r)}

\* --------------------------------------------------------------- the Entry
NewEntry(id, hreq, host) ==
  [ID |-> id, Request |-> hreq, Host |-> host, Cache |-> "{}", Timings |-> "{}",
   next |-> None]

\* json.Marshal of a Request; postData is omitempty.
RequestJSON(q) ==
  LET base == [method |-> q.Method, headers |-> q.Headers,
               queryString |-> q.QueryString, headersSize |-> q.HeadersSize,
               bodySize |-> q.BodySize]
  IN IF q.PostData = None THEN base
     ELSE base @@ [postData |-> PostDataMarshalJSON(q.PostData)]

\* json.Marshal(entry); next is unexported and not written.
EntryJSON(e) ==
  [context_id |-> e.ID, request |-> RequestJSON(e.Request), host |-> e.Host,
   cache |-> e.Cache, timings |-> e.Timings]

\* =================================================================== state
VARIABLES
  postDataLogging,  \* Logger.postDataLogging: the value the policy returns
  bodyLogging,      \* Logger.bodyLogging: the value the policy returns
  entries,          \* Logger.entries: correlation ID -> Entry
  tail,             \* Logger.tail: the ID of the last chained Entry, or None
  published,        \* the channel.Publish calls made so far, by calling task
  req,              \* per task: the http.Request of its request/response cycle
  pc,               \* per task: where its hooks stand
  entry,            \* per task: RecordRequest's local entry
  body,             \* per task: RecordRequest's local body (json.Marshal result)
  ret,              \* per task: what ModifyRequest returned
  resRet,           \* per task: what ModifyResponse returned
  resBody,          \* per task: what a read of the response's Body would yield
  snapshots,        \* per task: how often capture snapshotted its request body
  afterFailure,     \* per task: RecordRequest began after some publish had failed
  bpc,              \* body run: its position
  breq,             \* body run: the http.Request handed to NewRequest
  blog,             \* body run: the withBody argument
  bres,             \* body run: what NewRequest returned
  bres2,            \* body run: what a second NewRequest on the request returned
  borig,            \* body run: the body bytes the request arrived with
  bread,            \* body run: what a later read of req.Body to EOF yielded
  cpc,              \* codec run: its position
  cin,              \* codec run: the value to serialize, or the destination
  cwire,            \* codec run: the serialized JSON
  cout,             \* codec run: what deserializing cwire returned
  hpc,              \* handler run: which handler serves, or that it returned
  hreq,             \* handler run: the http.Request handed to ServeHTTP
  hstore,           \* handler run: the request documents the store holds
  hops,             \* handler run: the calls made on the store, in order
  hrw,              \* handler run: the http.ResponseWriter
  opc,              \* option run: idle, or inside a SetOption call
  optArgs           \* option run: the options of the SetOption call

loggerVars == <<postDataLogging, bodyLogging, entries, tail>>
taskVars == <<req, pc, entry, body, ret, resRet, resBody, snapshots, afterFailure>>
bodyVars == <<bpc, breq, blog, bres, bres2, borig, bread>>
codecVars == <<cpc, cin, cwire, cout>>
handlerVars == <<hpc, hreq, hstore, hops, hrw>>
optionVars == <<opc, optArgs>>
sideVars == <<handlerVars, optionVars>>
pureVars == <<bodyVars, codecVars, sideVars>>
vars == <<loggerVars, published, taskVars, pureVars>>


\* l.queue.Name, the routing key
QueueName == "requests"

AnyPublishFailed ==
  \E q \in Tasks : \E i \in 1..Len(published[q]) : ~published[q][i].ok

\* NewLogger: both policies enabled, an empty map, no tail.
InitLogger ==
  /\ postDataLogging = TRUE
  /\ bodyLogging = TRUE
  /\ entries = <<>>
  /\ tail = None

InitTasks ==
  /\ published = [p \in Tasks |-> <<>>]
  /\ pc = [p \in Tasks |-> "request"]
  /\ entry = [p \in Tasks |-> None]
  /\ body = [p \in Tasks |-> None]
  /\ ret = [p \in Tasks |-> "pending"]
  /\ resRet = [p \in Tasks |-> "pending"]
  /\ resBody = [p \in Tasks |-> <<111, 107>>]
  /\ snapshots = [p \in Tasks |-> 0]
  /\ afterFailure = [p \in Tasks |-> FALSE]

CodecOff ==
  /\ cpc = "off"
  /\ cin = None
  /\ cwire = None
  /\ cout = None

HandlersOff ==
  /\ hpc = "off"
  /\ hreq = None
  /\ hstore = <<>>
  /\ hops = <<>>
  /\ hrw = None

OptionsOff ==
  /\ opc = "off"
  /\ optArgs = <<>>

SideOff == HandlersOff /\ OptionsOff

BodyOff ==
  /\ bpc = "off"
  /\ breq = None
  /\ blog = FALSE
  /\ bres = None
  /\ bres2 = None
  /\ borig = None
  /\ bread = None

\* No hook runs: the tasks are done with a request the context excluded.
TasksOff ==
  /\ published = [p \in Tasks |-> <<>>]
  /\ pc = [p \in Tasks |-> "done"]
  /\ req = [p \in Tasks |->
             HTTPRequest(TRUE, "GET", "probe", "", FALSE, <<>>, FALSE)]
  /\ entry = [p \in Tasks |-> None]
  /\ body = [p \in Tasks |-> None]
  /\ ret = [p \in Tasks |-> "nil"]
  /\ resRet = [p \in Tasks |-> "nil"]
  /\ resBody = [p \in Tasks |-> <<>>]
  /\ snapshots = [p \in Tasks |-> 0]
  /\ afterFailure = [p \in Tasks |-> FALSE]

Init ==
  /\ InitLogger
  /\ InitTasks
  /\ req \in {f \in [Tasks -> UNION {Requests(p) : p \in Tasks}] :
                \A p \in Tasks : f[p] \in Requests(p)}
  /\ BodyOff
  /\ CodecOff
  /\ SideOff

\* ------------------------------------------------------------ the options
\* l.SetOption(PostDataLogging(enabled))
SetPostDataLogging(enabled) ==
  /\ postDataLogging # enabled
  /\ postDataLogging' = enabled
  /\ UNCHANGED <<bodyLogging, entries, tail, published, taskVars, pureVars>>

\* l.SetOption(BodyLogging(enabled))
SetBodyLogging(enabled) ==
  /\ bodyLogging # enabled
  /\ bodyLogging' = enabled
  /\ UNCHANGED <<postDataLogging, entries, tail, published, taskVars, pureVars>>

\* ------------------------------------------------------- the request hook
\* RecordRequest up to the construction of the entry: NewRequest under the
\* post-data policy of this moment, then the Entry.
\* Variant: the entry under construction is kept in one slot shared by the
\* calls that have not serialized yet.
RecordRequestBegin_SharedEntry(p) ==
  \E res \in NewRequest(req[p], postDataLogging) :
    /\ req' = [req EXCEPT ![p].Body = res.Body]
    /\ snapshots' = [snapshots EXCEPT ![p] = @ + (IF res.snap THEN 1 ELSE 0)]
    /\ afterFailure' = [afterFailure EXCEPT ![p] = AnyPublishFailed]
    /\ IF res.err
       THEN /\ ret' = [ret EXCEPT ![p] = "err"]
            /\ pc' = [pc EXCEPT ![p] = "response"]
            /\ UNCHANGED entry
       ELSE /\ entry' = [q \in Tasks |->
                           IF q = p \/ pc[q] = "marshal"
                           THEN NewEntry(ContextID(p), res.hreq, req[p].Host)
                           ELSE entry[q]]
            /\ pc' = [pc EXCEPT ![p] = "marshal"]
            /\ UNCHANGED ret
    /\ UNCHANGED <<loggerVars, published, body, resRet, resBody, pureVars>>

RecordRequestBegin(p) ==
  \E res \in NewRequest(req[p], postDataLogging) :
    /\ req' = [req EXCEPT ![p].Body = res.Body]
    /\ snapshots' = [snapshots EXCEPT ![p] = @ + (IF res.snap THEN 1 ELSE 0)]
    /\ afterFailure' = [afterFailure EXCEPT ![p] = AnyPublishFailed]
    /\ IF res.err
       THEN /\ ret' = [ret EXCEPT ![p] = "err"]
            /\ pc' = [pc EXCEPT ![p] = "response"]
            /\ UNCHANGED entry
       ELSE /\ entry' = [entry EXCEPT
                           ![p] = NewEntry(ContextID(p), res.hreq, req[p].Host)]
            /\ pc' = [pc EXCEPT ![p] = "marshal"]
            /\ UNCHANGED ret
    /\ UNCHANGED <<loggerVars, published, body, resRet, resBody, pureVars>>

\* ModifyRequest: a request the context excludes returns nil at once.
\* Variant: the hook without the SkippingLogging test.
ModifyRequest_NoSkipCheck(p) ==
  /\ pc[p] = "request"
  /\ RecordRequestBegin(p)

ModifyRequest(p) ==
  /\ pc[p] = "request"
  /\ IF req[p].Skip
     THEN /\ ret' = [ret EXCEPT ![p] = "nil"]
          /\ pc' = [pc EXCEPT ![p] = "response"]
          /\ UNCHANGED <<loggerVars, published, req, entry, body, resRet,
                         snapshots, afterFailure,
                 resBody, pureVars>>
     ELSE RecordRequestBegin(p)

\* RecordRequest: body, err := json.Marshal(entry); an error is logged and
\* the function goes on with a nil body.
Marshal(p) ==
  /\ pc[p] = "marshal"
  /\ \E ok \in BOOLEAN :
       body' = [body EXCEPT ![p] = IF ok THEN EntryJSON(entry[p]) ELSE Nil]
  /\ pc' = [pc EXCEPT ![p] = "publish"]
  /\ UNCHANGED <<loggerVars, published, req, entry, ret, resRet, snapshots,
                 afterFailure,
                 resBody, pureVars>>

PublishCall(p, ok) ==
  [exchange |-> "", key |-> QueueName, mandatory |-> FALSE, immediate |-> FALSE,
   contentType |-> "application/json", body |-> body[p], ok |-> ok]

\* Variant: the publish error is returned to the caller.
PublishReturn_Err(ok) == IF ok THEN "nil" ELSE "err"

\* What RecordRequest returns after the publish call.
PublishReturn(ok) == "nil"

\* Variant: a failed publish is tried a second time.
Publish_Retry(p) ==
  /\ pc[p] = "publish"
  /\ \E ok \in BOOLEAN :
       /\ published' = [published EXCEPT
            ![p] = IF ok THEN Append(@, PublishCall(p, TRUE))
                   ELSE Append(Append(@, PublishCall(p, FALSE)), PublishCall(p, TRUE))]
       /\ ret' = [ret EXCEPT ![p] = "nil"]
  /\ pc' = [pc EXCEPT ![p] = "response"]
  /\ UNCHANGED <<loggerVars, req, entry, body, resRet, snapshots, afterFailure,
                 resBody, pureVars>>

\* RecordRequest: l.channel.Publish(...), once; both outcomes return nil.
Publish(p) ==
  /\ pc[p] = "publish"
  /\ \E ok \in BOOLEAN :
       /\ published' = [published EXCEPT ![p] = Append(@, PublishCall(p, ok))]
       /\ ret' = [ret EXCEPT ![p] = PublishReturn(ok)]
  /\ pc' = [pc EXCEPT ![p] = "response"]
  /\ UNCHANGED <<loggerVars, req, entry, body, resRet, snapshots, afterFailure,
                 resBody, pureVars>>

\* ------------------------------------------------------ the response hook
\* RecordResponse returns nil.
\* Variant: the response is recorded: its body is read into a new Entry of
\* the Logger's map.
RecordResponse_StoresEntry(p) ==
  /\ resRet' = [resRet EXCEPT ![p] = "nil"]
  /\ pc' = [pc EXCEPT ![p] = "done"]
  /\ resBody' = [resBody EXCEPT ![p] = <<>>]
  /\ entries' = [id \in DOMAIN entries \cup {ContextID(p)} |->
                   IF id = ContextID(p)
                   THEN NewEntry(id, resBody[p], req[p].Host)
                   ELSE entries[id]]
  /\ UNCHANGED <<postDataLogging, bodyLogging, tail, published, req, entry,
                 body, ret, snapshots, afterFailure, pureVars>>

RecordResponse(p) ==
  /\ resRet' = [resRet EXCEPT ![p] = "nil"]
  /\ pc' = [pc EXCEPT ![p] = "done"]
  /\ UNCHANGED <<loggerVars, published, req, entry, body, ret, snapshots,
                 afterFailure,
                 resBody, pureVars>>

ModifyResponse(p) ==
  /\ pc[p] = "response"
  /\ IF req[p].Skip
     THEN /\ resRet' = [resRet EXCEPT ![p] = "nil"]
          /\ pc' = [pc EXCEPT ![p] = "done"]
          /\ UNCHANGED <<loggerVars, published, req, entry, body, ret, snapshots,
                         afterFailure,
                 resBody, pureVars>>
     ELSE RecordResponse(p)

Next ==
  \/ \E enabled \in BOOLEAN : SetPostDataLogging(enabled)
  \/ \E p \in Tasks : ModifyRequest(p)
  \/ \E p \in Tasks : Marshal(p)
  \/ \E p \in Tasks : Publish(p)
  \/ \E p \in Tasks : ModifyResponse(p)

Spec == Init /\ [][Next]_vars

\* ============================================ the Body Materializer alone
\* One request is handed to NewRequest, then the next consumer reads its body.
BodyBytes == {0, 1, 2, 37, 38, 61, 97}

ContentTypes ==
  {"multipart/form-data; boundary=x", "application/x-www-form-urlencoded",
   "application/octet-stream", "text/plain; charset"}

\* The form a=1&a=2&b=3
ExampleForm == <<97, 61, 49, 38, 97, 61, 50, 38, 98, 61, 51>>

Bodies == SeqsUpTo(BodyBytes, MaxBodyLen) \cup {ExampleForm}

\* Header fields as they arrived: Accept twice, then X-Id.
HeaderLists ==
  { <<[Name |-> "X-Id", Value |-> "1"]>>,
    <<[Name |-> "Accept", Value |-> "a"], [Name |-> "Accept", Value |-> "b"],
      [Name |-> "X-Id", Value |-> "1"]>> }

\* The queries of the URL: none, and ?a=1&a=2&b=3
QueryLists ==
  { <<>>,
    <<[Name |-> "a", Value |-> "1"], [Name |-> "a", Value |-> "2"],
      [Name |-> "b", Value |-> "3"]>> }

\* GET requests without a body, with header fields and a query.
HeaderRequests ==
  {[HTTPRequest(FALSE, "GET", "a.test", "", FALSE, <<>>, FALSE)
      EXCEPT !.Header = hs, !.Query = qs] :
     hs \in HeaderLists, qs \in QueryLists}

BodyRequests ==
  {HTTPRequest(FALSE, "POST", "a.test", ct, chunked, b, fails) :
     ct \in ContentTypes, chunked \in BOOLEAN,
     b \in Bodies, fails \in BOOLEAN}
    \cup HeaderRequests

InitBody ==
  /\ InitLogger
  /\ TasksOff
  /\ SideOff
  /\ CodecOff
  /\ bpc = "start"
  /\ breq \in BodyRequests
  /\ borig = breq.Body
  /\ blog \in BOOLEAN
  /\ bres = None
  /\ bres2 = None
  /\ bread = None

\* hreq, err := NewRequest(req, withBody)
BodyCapture ==
  /\ bpc = "start"
  /\ \E res \in NewRequest(breq, blog) :
       /\ bres' = res
       /\ breq' = [breq EXCEPT !.Body = res.Body,
                               !.BodyFails = IF res.snap THEN FALSE ELSE @]
  /\ bpc' = "captured"
  /\ UNCHANGED <<loggerVars, published, taskVars, sideVars, codecVars,
                 blog, bres2, borig, bread>>

\* The rest of the pipeline: ioutil.ReadAll(req.Body)
BodyReadAll ==
  /\ bpc = "captured"
  /\ bread' = IF breq.BodyFails THEN [err |-> TRUE, bytes |-> <<>>]
              ELSE [err |-> FALSE, bytes |-> breq.Body]
  /\ breq' = [breq EXCEPT !.Body = <<>>]
  /\ bpc' = "read"
  /\ UNCHANGED <<loggerVars, published, taskVars, sideVars, codecVars,
                 blog, borig, bres, bres2>>

\* A second capture of the same request: NewRequest(req, withBody) again.
BodyCaptureAgain ==
  /\ bpc = "captured"
  /\ \E res \in NewRequest(breq, blog) :
       /\ bres2' = res
       /\ breq' = [breq EXCEPT !.Body = res.Body,
                               !.BodyFails = IF res.snap THEN FALSE ELSE @]
  /\ bpc' = "recaptured"
  /\ UNCHANGED <<loggerVars, published, taskVars, sideVars, codecVars,
                 blog, bres, borig, bread>>

NextBody == BodyCapture \/ BodyReadAll \/ BodyCaptureAgain

SpecBody == InitBody /\ [][NextBody]_vars

\* ========================================================= the codec alone
\* One PostData is serialized and the output deserialized into a new PostData.
CodecBytes == {34, 97, 169, 195, 255}

CodecParams ==
  {Param(<<97>>, v, f[1], f[2]) :
     v \in SeqsUpTo(CodecBytes, MaxValueLen),
     f \in {<<"", "">>, <<"f.bin", "application/octet-stream">>}}

OtherParam == Param(<<98>>, <<50>>, "", "")

CodecParamSeqs ==
  {<<>>} \cup {<<q>> : q \in CodecParams}
         \cup {<<q, OtherParam>> : q \in CodecParams}
         \cup {<<OtherParam, q>> : q \in CodecParams}

PostDatas ==
  {NewPostData(mt, ps, t) :
     mt \in {"text/plain", "multipart/form-data"},
     ps \in CodecParamSeqs, t \in SeqsUpTo(CodecBytes, MaxTextLen)}

InitCodec ==
  /\ InitLogger
  /\ TasksOff
  /\ SideOff
  /\ BodyOff
  /\ cpc = "start"
  /\ cin \in PostDatas
  /\ cwire = None
  /\ cout = None

\* data, err := json.Marshal(&pd)
CodecMarshal ==
  /\ cpc = "start"
  /\ cwire' = PostDataMarshalJSON(cin)
  /\ cpc' = "marshalled"
  /\ UNCHANGED <<loggerVars, published, taskVars, sideVars, bodyVars, cin, cout>>

\* var out PostData; err := json.Unmarshal(data, &out)
CodecUnmarshal ==
  /\ cpc = "marshalled"
  /\ cout' = PostDataUnmarshalJSON(NewPostData("", <<>>, <<>>), cwire)
  /\ cpc' = "done"
  /\ UNCHANGED <<loggerVars, published, taskVars, sideVars, bodyVars, cin, cwire>>

NextCodec == CodecMarshal \/ CodecUnmarshal

SpecCodec == InitCodec /\ [][NextCodec]_vars

\* -------------------------------------------------------- SpecContent: Content
\* One Content is serialized and the result deserialized into a zero Content.
ContentSizes == {0, 2}

Encodings == {"", "base64", "gzip"}

Contents ==
  {NewContent(n, "text/html", t, e) :
     n \in ContentSizes, t \in SeqsUpTo(CodecBytes, MaxTextLen), e \in Encodings}

InitContent ==
  /\ InitLogger
  /\ TasksOff
  /\ SideOff
  /\ BodyOff
  /\ cpc = "content"
  /\ cin \in Contents
  /\ cwire = None
  /\ cout = None

\* data, err := json.Marshal(c)
ContentMarshal ==
  /\ cpc = "content"
  /\ cwire' = ContentMarshalJSON(cin)
  /\ cpc' = "content-marshalled"
  /\ UNCHANGED <<loggerVars, published, taskVars, sideVars, bodyVars, cin, cout>>

\* var out Content; err := json.Unmarshal(data, &out)
ContentUnmarshal ==
  /\ cpc = "content-marshalled"
  /\ ~cwire.err
  /\ cout' = ContentUnmarshalJSON(NewContent(0, "", <<>>, ""), cwire.json)
  /\ cpc' = "content-done"
  /\ UNCHANGED <<loggerVars, published, taskVars, sideVars, bodyVars, cin, cwire>>

NextContent == ContentMarshal \/ ContentUnmarshal

SpecContent == InitContent /\ [][NextContent]_vars

\* ------------------------------------------------- SpecDecode: received JSON
\* A JSON document that some producer wrote is deserialized into a PostData,
\* zero or already populated, or into a zero Content.  The text strings
\* are "", "a", "=", ... and the base64 strings "YQ==" (the byte 97) and "Yf8=" (the bytes 97 255).
WireTexts ==
  SeqsUpTo({61, 97}, MaxTextLen) \cup {<<89, 81, 61, 61>>, <<89, 102, 56, 61>>}

WireEncodings == {"", "base64", "BASE64", "gzip"}

WireObjects ==
  {[mimeType |-> "text/plain", text |-> t] : t \in WireTexts}
    \cup {[mimeType |-> "text/plain", text |-> t, encoding |-> e] :
            t \in WireTexts, e \in WireEncodings}

\* A destination that holds the result of an earlier capture.
PopulatedPostData == NewPostData("multipart/form-data", <<OtherParam>>, <<97>>)

InitDecode ==
  /\ InitLogger
  /\ TasksOff
  /\ SideOff
  /\ BodyOff
  /\ \/ /\ cpc = "postdata-received"
        /\ cin \in {NewPostData("", <<>>, <<>>), PopulatedPostData}
     \/ /\ cpc = "content-received"
        /\ cin = NewContent(0, "", <<>>, "")
  /\ cwire \in WireObjects \cup {JSONNull}
  /\ cout = None

\* err := json.Unmarshal(data, &out), out being the destination
DecodePostData ==
  /\ cpc = "postdata-received"
  /\ cout' = PostDataUnmarshalJSON(cin, cwire)
  /\ cpc' = "postdata-decoded"
  /\ UNCHANGED <<loggerVars, published, taskVars, sideVars, bodyVars, cin, cwire>>

\* var out Content; err := json.Unmarshal(data, &out)
DecodeContent ==
  /\ cpc = "content-received"
  /\ cout' = ContentUnmarshalJSON(cin, cwire)
  /\ cpc' = "content-decoded"
  /\ UNCHANGED <<loggerVars, published, taskVars, sideVars, bodyVars, cin, cwire>>

NextDecode == DecodePostData \/ DecodeContent

SpecDecode == InitDecode /\ [][NextDecode]_vars

\* ============================================== SpecOptions: the options
\* An Option is the policy it configures and the value it gives it.
PostDataLogging(enabled) == [policy |-> "postDataLogging", enabled |-> enabled]

BodyLogging(enabled) == [policy |-> "bodyLogging", enabled |-> enabled]

Options == {PostDataLogging(e) : e \in BOOLEAN} \cup {BodyLogging(e) : e \in BOOLEAN}

\* opt(l) on the two policies l of a Logger.
\* Variant: an option gives its value to both policies.
ApplyOption_SetsBoth(l, opt) ==
  [postDataLogging |-> opt.enabled, bodyLogging |-> opt.enabled]

ApplyOption(l, opt) ==
  IF opt.policy = "postDataLogging"
  THEN [l EXCEPT !.postDataLogging = opt.enabled]
  ELSE [l EXCEPT !.bodyLogging = opt.enabled]

\* for _, opt := range opts { opt(l) }
RECURSIVE ApplyOptions(_, _)
ApplyOptions(l, opts) ==
  IF Len(opts) = 0 THEN l
  ELSE ApplyOptions(ApplyOption(l, Head(opts)), Tail(opts))

\* The task whose request/response cycle runs beside the option calls.
OptionTask == 1

\* The Logger literal of NewLogger, before its two SetOption calls; one
\* request is on its way to the hooks.
InitOptions ==
  /\ postDataLogging = Nil
  /\ bodyLogging = Nil
  /\ entries = <<>>
  /\ tail = None
  /\ published = [p \in Tasks |-> <<>>]
  /\ pc = [p \in Tasks |-> IF p = OptionTask THEN "request" ELSE "done"]
  /\ req \in {f \in [Tasks -> UNION {Requests(p) : p \in Tasks}] :
                /\ f[OptionTask] \in Requests(OptionTask)
                /\ \A p \in Tasks \ {OptionTask} :
                     f[p] = HTTPRequest(TRUE, "POST", "probe", "text/plain",
                                        FALSE, <<97>>, FALSE)}
  /\ entry = [p \in Tasks |-> None]
  /\ body = [p \in Tasks |-> None]
  /\ ret = [p \in Tasks |-> IF p = OptionTask THEN "pending" ELSE "nil"]
  /\ resRet = [p \in Tasks |-> IF p = OptionTask THEN "pending" ELSE "nil"]
  /\ resBody = [p \in Tasks |-> <<111, 107>>]
  /\ snapshots = [p \in Tasks |-> 0]
  /\ afterFailure = [p \in Tasks |-> FALSE]
  /\ BodyOff
  /\ CodecOff
  /\ HandlersOff
  /\ opc = "new"
  /\ optArgs = <<>>

\* NewLogger: l.SetOption(BodyLogging(true)); l.SetOption(PostDataLogging(true))
NewLogger ==
  /\ opc = "new"
  /\ LET l0 == [postDataLogging |-> postDataLogging, bodyLogging |-> bodyLogging]
         l1 == ApplyOptions(l0, <<BodyLogging(TRUE)>>)
         l2 == ApplyOptions(l1, <<PostDataLogging(TRUE)>>)
     IN /\ postDataLogging' = l2.postDataLogging
        /\ bodyLogging' = l2.bodyLogging
  /\ opc' = "idle"
  /\ UNCHANGED <<entries, tail, published, taskVars, bodyVars, codecVars,
                 handlerVars, optArgs>>

\* A caller enters l.SetOption(opts...)
SetOptionCall ==
  /\ opc = "idle"
  /\ optArgs' \in SeqsUpTo(Options, MaxOptions)
  /\ opc' = "calling"
  /\ UNCHANGED <<loggerVars, published, taskVars, bodyVars, codecVars, handlerVars>>

\* l.SetOption(opts...)
SetOption ==
  /\ opc = "calling"
  /\ LET l == ApplyOptions([postDataLogging |-> postDataLogging,
                            bodyLogging |-> bodyLogging], optArgs)
     IN /\ postDataLogging' = l.postDataLogging
        /\ bodyLogging' = l.bodyLogging
  /\ opc' = "idle"
  /\ optArgs' = <<>>
  /\ UNCHANGED <<entries, tail, published, taskVars, bodyVars, codecVars,
                 handlerVars>>

\* The hooks run on the Logger that NewLogger returned.
NextOptions ==
  \/ NewLogger
  \/ SetOptionCall
  \/ SetOption
  \/ opc # "new" /\ ModifyRequest(OptionTask)
  \/ opc # "new" /\ Marshal(OptionTask)
  \/ opc # "new" /\ Publish(OptionTask)
  \/ opc # "new" /\ ModifyResponse(OptionTask)

SpecOptions == InitOptions /\ [][NextOptions]_vars

\* ===================================================== the store's handlers
\* http.ResponseWriter: Status is 0 until the header is written; Body is the
\* sequence of the documents written, [text |-> ...] or [json |-> ...].
NewResponseWriter ==
  [Status |-> 0, Allow |-> "", ContentType |-> "", Body |-> <<>>]

\* rw.WriteHeader(code): the first call counts.
WriteHeader(rw, code) == IF rw.Status = 0 THEN [rw EXCEPT !.Status = code] ELSE rw

\* rw.Header().Set: without effect once the header is written.
SetAllow(rw, v) == IF rw.Status = 0 THEN [rw EXCEPT !.Allow = v] ELSE rw

SetContentType(rw, v) == IF rw.Status = 0 THEN [rw EXCEPT !.ContentType = v] ELSE rw

\* rw.Write: writes the header with 200 if it is not written yet.
Write(rw, doc) == [WriteHeader(rw, 200) EXCEPT !.Body = Append(@, doc)]

\* json.NewEncoder(rw).Encode(v)
Encode(rw, v) == Write(rw, [json |-> v])

\* http.Error(rw, msg, code): a text/plain response with the message.
HTTPError(rw, msg, code) ==
  Write(WriteHeader(SetContentType(rw, "text/plain; charset=utf-8"), code),
        [text |-> msg])

\* json.Marshal of a responseBody
ResponseBodyJSON(success, message) == [success |-> success, message |-> message]

\* ---------------------------------------------------------------- mapping
\* A payload that is no JSON, and a JSON number where a string is expected.
Malformed == [malformed |-> TRUE]

JSONNumber == [number |-> 5]

\* A string of a JSON document or of a URL.
JSONString(v) == [str |-> v]

NewMapping(ip, pkg, platform) ==
  [ID |-> None, IPAddress |-> ip, Package |-> pkg, Platform |-> platform]

\* json.NewDecoder(req.Body).Decode(&m) into the zero mapping: [err, m]
DecodeMapping(payload) ==
  IF payload = Malformed THEN [err |-> TRUE, m |-> NewMapping("", "", "")]
  ELSE IF payload = JSONNull THEN [err |-> FALSE, m |-> NewMapping("", "", "")]
  ELSE IF \E k \in DOMAIN payload : payload[k] = JSONNumber
       THEN [err |-> TRUE, m |-> NewMapping("", "", "")]
  ELSE [err |-> FALSE,
        m |-> NewMapping(
                IF "ip_address" \in DOMAIN payload
                THEN payload.ip_address.str ELSE "",
                IF "package" \in DOMAIN payload THEN payload.package.str ELSE "",
                IF "platform" \in DOMAIN payload THEN payload.platform.str ELSE "")]

\* json.Marshal of a mapping
MappingJSON(m) ==
  [id |-> m.ID, ip_address |-> m.IPAddress, package |-> m.Package,
   platform |-> m.Platform]

\* The ID the store gives a created document.
NewID == [oid |-> <<1>>]

RequiredMessage == "IP address, package and platform are required for a mapping"

\* The test for the required fields.
\* Variant: only the IP address is required.
MissingFields_IPOnly(m) == m.IPAddress = ""

MissingFields(m) == m.IPAddress = "" \/ m.Package = "" \/ m.Platform = ""

\* exportHandler.ServeHTTP from the DELETE test on: [rw, ops]
\* Variant: a failed delete is answered, and the create is issued all the same.
exportStore_CreateAfterFailedDelete(rw, method, m, delOk, createOk) ==
  LET del == IF method = "DELETE" THEN <<[op |-> "Delete", doc |-> m]>> ELSE <<>>
      rw1 == IF method = "DELETE" /\ ~delOk
             THEN Encode(HTTPError(rw, "delete failed", 500),
                         ResponseBodyJSON(FALSE, "Error deleting mapping"))
             ELSE rw
      rw2 == SetContentType(rw1, "application/json; charset=utf-8")
      ops == del \o <<[op |-> "Create", doc |-> m]>>
  IN IF ~createOk
     THEN [rw |-> Encode(WriteHeader(rw2, 500),
                         ResponseBodyJSON(FALSE, "error writing to database")),
           ops |-> ops]
     ELSE [rw |-> Encode(rw2, MappingJSON([m EXCEPT !.ID = NewID])), ops |-> ops]

exportStore(rw, method, m, delOk, createOk) ==
  LET del == IF method = "DELETE" THEN <<[op |-> "Delete", doc |-> m]>> ELSE <<>>
      rw2 == SetContentType(rw, "application/json; charset=utf-8")
      ops == del \o <<[op |-> "Create", doc |-> m]>>
  IN IF method = "DELETE" /\ ~delOk
     THEN [rw |-> Encode(HTTPError(rw, "delete failed", 500),
                         ResponseBodyJSON(FALSE, "Error deleting mapping")),
           ops |-> del]
     ELSE IF ~createOk
     THEN [rw |-> Encode(WriteHeader(rw2, 500),
                         ResponseBodyJSON(FALSE, "error writing to database")),
           ops |-> ops]
     ELSE [rw |-> Encode(rw2, MappingJSON([m EXCEPT !.ID = NewID])), ops |-> ops]

\* exportHandler.ServeHTTP(rw, req): [rw, ops], the response and the calls on
\* the store; delOk and createOk are what the store answers.
exportServeHTTP(rw, r, delOk, createOk) ==
  LET dec == DecodeMapping(r.Body)
  IN IF r.Method # "POST" /\ r.Method # "DELETE"
     THEN [rw |-> Encode(WriteHeader(SetAllow(rw, "POST,DELETE"), 405),
                         ResponseBodyJSON(FALSE, "Method not allowed")),
           ops |-> <<>>]
     ELSE IF dec.err
     THEN [rw |-> Encode(HTTPError(rw, "decode failed", 400),
                         ResponseBodyJSON(FALSE, "Payload could not be parsed")),
           ops |-> <<>>]
     ELSE IF MissingFields(dec.m)
     THEN [rw |-> Encode(WriteHeader(rw, 400),
                         ResponseBodyJSON(FALSE, RequiredMessage)),
           ops |-> <<>>]
     ELSE exportStore(rw, r.Method, dec.m, delOk, createOk)

\* -------------------------------------------------------------- retrieval
\* primitive.ObjectIDFromHex: [err, oid]; 24 hex digits give 12 bytes.
ObjectIDFromHex(id) ==
  IF Len(id) # 24 \/ \E i \in 1..Len(id) : HexVal(id[i]) < 0
  THEN [err |-> TRUE, oid |-> None]
  ELSE [err |-> FALSE,
        oid |-> [oid |-> [i \in 1..12 |->
                            16 * HexVal(id[2 * i - 1]) + HexVal(id[2 * i])]]]

\* req.URL.Query().Get("id"): the empty string when the URL has no id.
QueryGetID(r) == IF r.ID = None THEN <<>> ELSE r.ID.str

\* SimpleFind(&requests, bson.M{"mapping_id": mappingId}) on the documents
\* the store holds: those of the mapping, in the store's order.
SimpleFind(docs, oid) == SelectSeq(docs, LAMBDA d : d.MappingId = oid)

\* resetHandler.ServeHTTP(rw, req): [rw, ops]; findOk is whether the store
\* answers the query, a failed query leaves requests nil.
resetServeHTTP(rw, r, docs, findOk) ==
  LET id == QueryGetID(r)
      parsed == ObjectIDFromHex(id)
      rw2 == SetContentType(rw, "application/json; charset=utf-8")
  IN IF r.Method # "GET"
     THEN [rw |-> WriteHeader(SetAllow(rw, "GET"), 405), ops |-> <<>>]
     ELSE IF id = <<>>
     THEN [rw |-> WriteHeader(rw, 400), ops |-> <<>>]
     ELSE IF parsed.err
     THEN [rw |-> WriteHeader(rw2, 400), ops |-> <<>>]
     ELSE [rw |-> Encode(rw2, IF findOk THEN SimpleFind(docs, parsed.oid)
                              ELSE JSONNull),
           ops |-> <<[op |-> "SimpleFind", mapping_id |-> parsed.oid]>>]

\* ------------------------------------------ SpecHandlers: one request served
Methods == {"GET", "POST", "DELETE", "PUT"}

\* What a payload may hold for a field: nothing, "", a value, a number.
FieldValues(v) == {None, JSONString(""), JSONString(v), JSONNumber}

\* A JSON object with the keys whose value is not None.
MappingObject(ip, pkg, platform) ==
  LET all == [ip_address |-> ip, package |-> pkg, platform |-> platform]
  IN [k \in {j \in DOMAIN all : all[j] # None} |-> all[k]]

MappingPayloads ==
  {Malformed, JSONNull}
    \cup {MappingObject(ip, pkg, platform) :
            ip \in FieldValues("10.0.0.1"), pkg \in FieldValues("com.app"),
            platform \in FieldValues("android")}

MappingRequests == {[Method |-> m, Body |-> b] : m \in Methods, b \in MappingPayloads}

\* The ids a URL may carry: none, the empty one, 24 hex digits (a..., 1...),
\* 23 hex digits, and 24 characters of which one is no hex digit.
HexID(c) == [i \in 1..24 |-> c]

RetrievalIDs ==
  {None}
    \cup {JSONString(id) :
            id \in {<<>>, HexID(97), HexID(49), [i \in 1..23 |-> 97],
                    [HexID(97) EXCEPT ![24] = 103]}}

RetrievalRequests == {[Method |-> m, ID |-> id] : m \in Methods, id \in RetrievalIDs}

StoredRequests ==
  {[MappingId |-> ObjectIDFromHex(HexID(97)).oid, ContextId |-> "c1"],
   [MappingId |-> ObjectIDFromHex(HexID(97)).oid, ContextId |-> "c2"],
   [MappingId |-> ObjectIDFromHex(HexID(49)).oid, ContextId |-> "c3"]}

InitHandlers ==
  /\ InitLogger
  /\ TasksOff
  /\ BodyOff
  /\ CodecOff
  /\ OptionsOff
  /\ hops = <<>>
  /\ hrw = NewResponseWriter
  /\ \/ /\ hpc = "mapping"
        /\ hreq \in MappingRequests
        /\ hstore = <<>>
     \/ /\ hpc = "retrieval"
        /\ hreq \in RetrievalRequests
        /\ hstore \in SeqsUpTo(StoredRequests, MaxDocs)

\* NewMappingHandler(l).ServeHTTP(rw, req)
MappingServeHTTP ==
  /\ hpc = "mapping"
  /\ \E delOk, createOk \in BOOLEAN :
       LET res == exportServeHTTP(hrw, hreq, delOk, createOk)
       IN /\ hrw' = res.rw
          /\ hops' = hops \o res.ops
  /\ hpc' = "mapping-done"
  /\ UNCHANGED <<loggerVars, published, taskVars, bodyVars, codecVars,
                 optionVars, hreq, hstore>>

\* RetrieveDataHandler(l).ServeHTTP(rw, req)
RetrievalServeHTTP ==
  /\ hpc = "retrieval"
  /\ \E findOk \in BOOLEAN :
       LET res == resetServeHTTP(hrw, hreq, hstore, findOk)
       IN /\ hrw' = res.rw
          /\ hops' = hops \o res.ops
  /\ hpc' = "retrieval-done"
  /\ UNCHANGED <<loggerVars, published, taskVars, bodyVars, codecVars,
                 optionVars, hreq, hstore>>

NextHandlers == MappingServeHTTP \/ RetrievalServeHTTP

SpecHandlers == InitHandlers /\ [][NextHandlers]_vars

\* ================================================================== claims
HasBody(r) == r.ContentLength > 0 \/ r.Chunked

Returned(p) == pc[p] \in {"response", "done"}

\* The PostData a consumer of the queue decodes from a published payload.
DecodedPostData(payload) ==
  PostDataUnmarshalJSON(NewPostData("", <<>>, <<>>), payload.request.postData).p

\* The IDs of the Logger's chain, from its first entry along next.
RECURSIVE ChainFrom(_, _)
ChainFrom(m, id) ==
  IF id \notin DOMAIN m THEN <<>> ELSE <<id>> \o ChainFrom(m, m[id].next)

ChainIDs(m) ==
  IF DOMAIN m = {} THEN <<>>
  ELSE ChainFrom(m, CHOOSE id \in DOMAIN m : \A o \in DOMAIN m : m[o].next # id)

\* C1: when NewRequest ran with withBody = true on a request that has a body
\* and returned no error, the next read of the request's body to the end of
\* the stream yields exactly the bytes the request arrived with, whatever the
\* content type.
C1_BodyStillReadable ==
  (bpc = "read" /\ blog /\ HasBody(breq) /\ ~bres.err)
    => bread = [err |-> FALSE, bytes |-> borig]

C1_Witness ==
  /\ bpc = "read"
  /\ blog
  /\ ~bres.err
  /\ bres.hreq.PostData # None
  /\ bres.hreq.PostData.MimeType = "multipart/form-data"
  /\ Len(bres.hreq.PostData.Params) = 2
  /\ bread = [err |-> FALSE, bytes |-> <<1, 2, 0>>]

\* C2: the request hook returns nil for every request, whichever capture
\* step failed.
C2_HookAlwaysSucceeds ==
  \A p \in Tasks : Returned(p) => ret[p] = "nil"

\* C3: when json.Marshal of the entry failed, no publish call is made for
\* that request.
C3_NoPublishAfterSerializeFailure ==
  \A p \in Tasks : body[p] = Nil => published[p] = <<>>

\* C4: a failed publish is swallowed (RecordRequest returns nil), and a
\* RecordRequest that begins after some publish has failed still builds the
\* entry of its own ID and makes its own publish call.
C4_PublishFailureContained ==
  \A p \in Tasks :
    /\ (Returned(p) /\ published[p] # <<>> /\ ~published[p][Len(published[p])].ok)
         => ret[p] = "nil"
    /\ (afterFailure[p] /\ ret[p] # "err")
         => /\ entry[p] # None
            /\ entry[p].ID = ContextID(p)
            /\ Returned(p) => /\ ret[p] = "nil"
                              /\ Len(published[p]) = 1

C4_Witness ==
  \E p, q \in Tasks :
    /\ p # q
    /\ published[q] # <<>>
    /\ ~published[q][1].ok
    /\ ret[q] = "nil"
    /\ afterFailure[p]
    /\ Returned(p)
    /\ Len(published[p]) = 1
    /\ body[p] # Nil
    /\ published[p][1].body.context_id = ContextID(p)

\* C5: for a request whose entry was built and serialized, exactly one
\* publish call is made, with content type application/json and the queue
\* name as routing key: none before the call, no second one after a failure.
C5_ExactlyOnePublish ==
  \A p \in Tasks :
    (body[p] # None /\ body[p] # Nil)
      => IF pc[p] = "publish" THEN published[p] = <<>>
         ELSE /\ Len(published[p]) = 1
              /\ published[p][1].contentType = "application/json"
              /\ published[p][1].key = QueueName
              /\ published[p][1].body = body[p]

C5_Witness ==
  \E p \in Tasks :
    /\ pc[p] = "done"
    /\ body[p] # None
    /\ body[p] # Nil
    /\ Len(published[p]) = 1
    /\ ~published[p][1].ok

\* C6: under every interleaving of the tasks, each payload handed to the
\* sink carries the ID, the host and the body of the request of the task
\* that published it, and each task's entry is the one it built.
C6_NoCrossCapture ==
  \A p \in Tasks :
    /\ entry[p] # None => (entry[p].ID = ContextID(p) /\ entry[p].Host = req[p].Host)
    /\ \A i \in 1..Len(published[p]) :
         LET b == published[p][i].body IN
         b # Nil =>
           /\ b.context_id = ContextID(p)
           /\ b.host = req[p].Host
           /\ b.request.bodySize = req[p].ContentLength
           /\ "postData" \in DOMAIN b.request =>
                DecodedPostData(b).Text \in {<<>>, req[p].Body}

C6_Witness ==
  \E p, q \in Tasks :
    /\ p # q
    /\ \A t \in {p, q} :
         /\ Len(published[t]) = 1
         /\ published[t][1].body # Nil
         /\ "postData" \in DOMAIN published[t][1].body.request
         /\ DecodedPostData(published[t][1].body).Text = <<255, 48 + t>>

\* C7: once RecordRequest has observed a request that is not excluded, the
\* Logger's map holds an Entry for its ID.
C7_EntryInMap ==
  \A p \in Tasks :
    (~req[p].Skip /\ pc[p] # "request" /\ ret[p] # "err")
      => ContextID(p) \in DOMAIN entries

\* C8: observing a request appends its Entry to the Logger's chain: the new
\* Entry becomes the tail and the chain grows by exactly that ID at its end.
C8_ChainedInObservationOrder ==
  [][\A p \in Tasks :
       (pc[p] = "request" /\ pc'[p] = "marshal")
         => /\ tail' = ContextID(p)
            /\ ChainIDs(entries') = Append(ChainIDs(entries), ContextID(p))]_vars

\* C9: for a request the context excludes, ModifyRequest and ModifyResponse
\* return nil and change nothing: no snapshot of the body, no Entry, no
\* publish call, the Logger as it was.
C9_ExcludedIsNoOp ==
  [][\A p \in Tasks :
       (req[p].Skip /\ pc'[p] # pc[p])
         => /\ UNCHANGED <<loggerVars, published, req, entry, body, snapshots,
                          afterFailure>>
            /\ pc[p] = "request" => ret'[p] = "nil"
            /\ pc[p] = "response" => (resRet'[p] = "nil" /\ ret'[p] = ret[p])]_vars

C9_Witness ==
  \E p \in Tasks :
    /\ req[p].Skip
    /\ pc[p] = "done"
    /\ ret[p] = "nil"
    /\ resRet[p] = "nil"
    /\ snapshots[p] = 0
    /\ published[p] = <<>>

\* C10: deserializing the serialization of a PostData gives back the same
\* Text bytes, MIME type and Params, whether or not its Text is valid UTF-8.
C10_RoundTrip ==
  cpc = "done" => (~cout.err /\ cout.p = cin)

\* C11: the serialized PostData carries the text as a literal string with no
\* encoding key exactly when Text is valid UTF-8, and as base64 with
\* encoding = "base64" exactly when it is not; the string on the wire never
\* holds a byte sequence that is not valid UTF-8.
C11_TextEncodingByValidity ==
  cpc \in {"marshalled", "done"} =>
    /\ ValidString(cwire.text)
    /\ IF ValidString(cin.Text)
       THEN /\ "encoding" \notin DOMAIN cwire
            /\ Unquote(cwire.text) = cin.Text
       ELSE /\ "encoding" \in DOMAIN cwire
            /\ cwire.encoding = "base64"
            /\ B64Decode(cwire.text) = [ok |-> TRUE, bytes |-> cin.Text]

C11_Witness ==
  /\ cpc = "marshalled"
  /\ cin.Text = <<97, 255>>
  /\ "encoding" \in DOMAIN cwire
  /\ cwire.encoding = "base64"
  /\ cwire.text = <<89, 102, 56, 61>>

\* C12 as stated: a Content is serialized by the UTF-8 test on its Text, as a
\* PostData is: valid text literally with no encoding key, anything else as
\* base64 with encoding = "base64".
C12_ContentEncodingByValidity ==
  cpc \in {"content-marshalled", "content-done"} =>
    /\ ~cwire.err
    /\ IF ValidString(cin.Text)
       THEN /\ "encoding" \notin DOMAIN cwire.json
            /\ cin.Text # <<>> => Unquote(cwire.json.text) = cin.Text
       ELSE /\ "encoding" \in DOMAIN cwire.json
            /\ cwire.json.encoding = "base64"
            /\ B64Decode(Unquote(cwire.json.text)) =
                 [ok |-> TRUE, bytes |-> cin.Text]

\* C12 amended: a Content is serialized by its Encoding field, which the
\* producer sets, and never by a test of its Text.  Encoding "" writes the
\* text as a JSON string with no encoding key, Encoding "base64" writes it
\* as base64 with encoding = "base64", any other Encoding is an error.
C12_ContentEncodingByField ==
  cpc \in {"content-marshalled", "content-done"} =>
    IF cin.Encoding = ""
    THEN /\ ~cwire.err
         /\ "encoding" \notin DOMAIN cwire.json
         /\ ("text" \in DOMAIN cwire.json) = (cin.Text # <<>>)
         /\ (cin.Text # <<>> /\ ValidString(cin.Text)) =>
               Unquote(cwire.json.text) = cin.Text
    ELSE IF cin.Encoding = "base64"
    THEN /\ ~cwire.err
         /\ cwire.json.encoding = "base64"
         /\ cin.Text # <<>> =>
               B64Decode(Unquote(cwire.json.text)) =
                 [ok |-> TRUE, bytes |-> cin.Text]
    ELSE cwire.err

\* Valid text whose producer asked for base64 is written as base64 ("YQ==").
C12_Witness ==
  /\ cpc = "content-marshalled"
  /\ cin.Text = <<97>>
  /\ cin.Encoding = "base64"
  /\ ~cwire.err
  /\ cwire.json.encoding = "base64"
  /\ cwire.json.text = <<89, 81, 61, 61>>

\* C13 as stated: deserializing a PostData or a Content takes the text
\* literally when the encoding key is absent or empty, base64-decodes it when
\* the key is "base64", and fails for every other value of the key.
C13_UnknownEncodingIsError ==
  (cpc \in {"postdata-decoded", "content-decoded"} /\ cwire # JSONNull) =>
    LET enc == IF "encoding" \in DOMAIN cwire THEN cwire.encoding ELSE ""
    IN IF enc = ""
       THEN ~cout.err /\ cout.p.Text = Unquote(cwire.text)
       ELSE IF enc = "base64"
       THEN LET d == B64Decode(Unquote(cwire.text))
            IN IF d.ok THEN ~cout.err /\ cout.p.Text = d.bytes ELSE cout.err
       ELSE cout.err

\* The body run has captured the request at least once.
Captured == bpc \in {"captured", "read", "recaptured"}

IsMultipart(r) == r.ContentType = "multipart/form-data; boundary=x"

IsURLEncoded(r) == r.ContentType = "application/x-www-form-urlencoded"

\* C14: for a request with no content length and no transfer encoding
\* (Content-Length: 0 included) the capture returns no PostData and no error
\* and does not snapshot the body; for a request with a positive content
\* length or a transfer encoding it returns a PostData or an error, never
\* that empty result.
C14_NoBodyNoPostData ==
  Captured =>
    IF breq.ContentLength <= 0 /\ ~breq.Chunked
    THEN /\ ~bres.err
         /\ bres.pd = None
         /\ bres.hreq.PostData = None
         /\ ~bres.snap
         /\ bpc = "captured" => breq.Body = borig
    ELSE bres.err \/ (bres.pd # None /\ bres.hreq.PostData # None)

C14_Witness ==
  /\ bpc = "captured"
  /\ blog
  /\ breq.Method = "POST"
  /\ breq.ContentLength = 0
  /\ ~breq.Chunked
  /\ ~bres.err
  /\ bres.hreq.PostData = None

\* C15: with withBody = false a request with a non-empty body gets a PostData
\* that holds the MIME type only, with no Params and no Text, the body is
\* neither snapshotted nor read, and a second capture returns the same.
C15_HeadersOnly ==
  (Captured /\ ~blog /\ HasBody(breq) /\ borig # <<>>) =>
    /\ ~bres.err
    /\ bres.hreq.PostData.MimeType \in {breq.ContentType, "multipart/form-data"}
    /\ IsMultipart(breq) => bres.hreq.PostData.MimeType = "multipart/form-data"
    /\ bres.hreq.PostData.Params = <<>>
    /\ bres.hreq.PostData.Text = <<>>
    /\ ~bres.snap
    /\ bpc \in {"captured", "recaptured"} => breq.Body = borig
    /\ bpc = "recaptured" =>
          (~bres2.err /\ ~bres2.snap /\ bres2.hreq.PostData = bres.hreq.PostData)

C15_Witness ==
  /\ bpc = "recaptured"
  /\ ~blog
  /\ borig = <<97, 61, 97>>
  /\ IsURLEncoded(breq)
  /\ bres.hreq.PostData =
       NewPostData("application/x-www-form-urlencoded", <<>>, <<>>)
  /\ bres2.hreq.PostData = bres.hreq.PostData

\* The frames of a multipart body up to its closing delimiter are parts.
WellFormedMultipart(b) ==
  /\ IndexOf(b, 0, 1) > 0
  /\ \A i \in 1..(IndexOf(b, 0, 1) - 1) : b[i] \in 1..Len(MultipartParts)

\* C16: a multipart/form-data body of N parts captured with withBody = true
\* gives exactly N Params, in the order of the parts, each with the form
\* name, the file name (empty when the part has none), the content type and
\* the whole content of its part; Text stays empty.  The capture succeeds
\* when the body was read whole and ends with the closing delimiter.
C16_MultipartParams ==
  (Captured /\ blog /\ HasBody(breq) /\ IsMultipart(breq)) =>
    /\ ~bres.err => WellFormedMultipart(borig)
    /\ (WellFormedMultipart(borig) /\ bres.Body = borig) => ~bres.err
    /\ ~bres.err =>
         LET n == IndexOf(borig, 0, 1) - 1
             pd == bres.hreq.PostData
         IN /\ Len(pd.Params) = n
            /\ \A i \in 1..n :
                 /\ pd.Params[i].Name = MultipartParts[borig[i]].Name
                 /\ pd.Params[i].Filename = MultipartParts[borig[i]].Filename
                 /\ pd.Params[i].ContentType = MultipartParts[borig[i]].ContentType
                 /\ pd.Params[i].Value = MultipartParts[borig[i]].Value
            /\ pd.Text = <<>>

C16_Witness ==
  /\ bpc = "captured"
  /\ blog
  /\ IsMultipart(breq)
  /\ borig = <<1, 2, 0>>
  /\ ~bres.err
  /\ Len(bres.hreq.PostData.Params) = 2
  /\ bres.hreq.PostData.Params[1].Filename = ""
  /\ bres.hreq.PostData.Params[2].Filename = "f.bin"
  /\ bres.hreq.PostData.Params[2].Value = <<255>>

\* The name/value pairs of a form body as Params, in the order of the body.
PairsAsParams(b) ==
  LET pairs == ParseQuery(b).pairs
  IN [i \in 1..Len(pairs) |-> Param(pairs[i].Name, pairs[i].Value, "", "")]

\* C17 as stated: an application/x-www-form-urlencoded body gives one Param
\* per name/value pair in the order of the pairs in the body, on every
\* capture (a=1&a=2&b=3 gives a=1, a=2, b=3).
C17_ParamsInBodyOrder ==
  (Captured /\ blog /\ HasBody(breq) /\ IsURLEncoded(breq) /\ ~bres.err) =>
    /\ bres.hreq.PostData.Params = PairsAsParams(borig)
    /\ (bpc = "recaptured" /\ ~bres2.err) =>
          bres2.hreq.PostData.Params = PairsAsParams(borig)

\* C18 as stated: Headers and QueryString hold one element per value in the
\* order of the source request, two captures of a request give the same
\* sequences, and the serialized Request keeps the order.
C18_InsertionOrder ==
  (Captured /\ ~bres.err) =>
    /\ bres.hreq.Headers = breq.Header
    /\ bres.hreq.QueryString = breq.Query
    /\ RequestJSON(bres.hreq).headers = breq.Header
    /\ RequestJSON(bres.hreq).queryString = breq.Query
    /\ (bpc = "recaptured" /\ ~bres2.err) =>
          /\ bres2.hreq.Headers = bres.hreq.Headers
          /\ bres2.hreq.QueryString = bres.hreq.QueryString

\* C19: when the snapshot, the iteration over the parts, a read or the parse
\* of the form fails, postData returns an error and no PostData, also when
\* Params had been collected before the failure, and NewRequest returns no
\* Request.
C19_FailureReturnsNothing ==
  Captured =>
    /\ bres.err => (bres.pd = None /\ bres.hreq = None)
    /\ (blog /\ HasBody(breq) /\ IsMultipart(breq) /\ IndexOf(borig, 0, 1) = 0)
         => bres.err
    /\ (blog /\ HasBody(breq) /\ IsURLEncoded(breq) /\ ParseQuery(borig).err)
         => bres.err

\* A part was collected before the stream ended without a closing delimiter.
C19_Witness ==
  /\ bpc = "captured"
  /\ blog
  /\ IsMultipart(breq)
  /\ borig = <<1>>
  /\ bres.err
  /\ bres.pd = None
  /\ bres.hreq = None

HasField(b, k) ==
  /\ b \notin {Malformed, JSONNull}
  /\ k \in DOMAIN b
  /\ b[k] \notin {JSONNumber, JSONString("")}

\* The request passes the three checks of the mapping handler.
Accepted(r) ==
  /\ r.Method \in {"POST", "DELETE"}
  /\ HasField(r.Body, "ip_address")
  /\ HasField(r.Body, "package")
  /\ HasField(r.Body, "platform")

\* The last document of the response is a responseBody.
EndsWithResponseBody(rw) ==
  /\ rw.Body # <<>>
  /\ "json" \in DOMAIN rw.Body[Len(rw.Body)]
  /\ DOMAIN rw.Body[Len(rw.Body)].json = {"success", "message"}

\* The response ends with the structured error of the message msg.
ErrorAnswer(rw, msg) ==
  /\ EndsWithResponseBody(rw)
  /\ rw.Body[Len(rw.Body)].json.success = FALSE
  /\ rw.Body[Len(rw.Body)].json.message = msg

ValidID(r) == r.ID \in {JSONString(HexID(97)), JSONString(HexID(49))}

\* C22 as stated: the retrieval handler answers an unsupported method, a
\* missing id, or an id that is no valid identifier with a structured error
\* that carries a success flag and a message, and does not query the store;
\* only a GET with a valid id queries the store and returns the list of the
\* Request records.
C22_RetrievalStructuredErrors ==
  hpc = "retrieval-done" =>
    IF hreq.Method = "GET" /\ ValidID(hreq)
    THEN /\ Len(hops) = 1
         /\ hops[1].op = "SimpleFind"
         /\ Len(hrw.Body) = 1
         /\ "json" \in DOMAIN hrw.Body[1]
    ELSE /\ hops = <<>>
         /\ EndsWithResponseBody(hrw)

\* C25: in the mapping handler an accepted DELETE issues one delete and, when
\* the delete succeeds, one create of the same record, and answers with the
\* created record; a failed delete ends the request before any create.  An
\* accepted request, POST or DELETE, issues at most one create, and never a
\* create before the delete.
C25_DeleteThenCreate ==
  (hpc = "mapping-done" /\ Accepted(hreq)) =>
    LET m == DecodeMapping(hreq.Body).m
        created == <<[json |-> MappingJSON([m EXCEPT !.ID = NewID])]>>
        afterCreate ==
          \/ hrw.Status = 200 /\ hrw.Body = created
          \/ hrw.Status = 500 /\ ErrorAnswer(hrw, "error writing to database")
    IN IF hreq.Method = "DELETE"
       THEN \/ /\ hops = <<[op |-> "Delete", doc |-> m]>>
               /\ hrw.Status = 500
               /\ ErrorAnswer(hrw, "Error deleting mapping")
            \/ /\ hops = <<[op |-> "Delete", doc |-> m], [op |-> "Create", doc |-> m]>>
               /\ afterCreate
       ELSE /\ hops = <<[op |-> "Create", doc |-> m]>>
            /\ afterCreate

\* An accepted DELETE whose delete and create both succeeded.
C25_Witness ==
  /\ hpc = "mapping-done"
  /\ hreq.Method = "DELETE"
  /\ Accepted(hreq)
  /\ Len(hops) = 2
  /\ hops[1].op = "Delete"
  /\ hops[2].op = "Create"
  /\ hrw.Status = 200
  /\ hrw.Body[1].json.id = NewID

\* C23: deserializing the JSON token null into a PostData returns no error
\* and leaves the MIME type, the Params and the Text of the destination as
\* they were; the destination is not reset to the empty PostData.
C23_NullLeavesDestination ==
  (cpc = "postdata-decoded" /\ cwire = JSONNull) =>
    /\ ~cout.err
    /\ cout.p.MimeType = cin.MimeType
    /\ cout.p.Params = cin.Params
    /\ cout.p.Text = cin.Text

C23_Witness ==
  /\ cpc = "postdata-decoded"
  /\ cwire = JSONNull
  /\ cin = PopulatedPostData
  /\ ~cout.err
  /\ cout.p.MimeType = "multipart/form-data"
  /\ Len(cout.p.Params) = 1
  /\ cout.p.Text = <<97>>

\* The value the last option of opts for the policy gives it; old if opts
\* has no option for the policy.
LastFor(policy, opts, old) ==
  LET idx == {i \in 1..Len(opts) : opts[i].policy = policy}
  IN IF idx = {} THEN old
     ELSE opts[CHOOSE i \in idx : \A j \in idx : j <= i].enabled

\* C24: the Logger has two boolean policies, both enabled after NewLogger;
\* a SetOption call leaves each policy at the value of the last of its
\* options for that policy and leaves a policy without an option as it was;
\* RecordRequest captures the body by the post-data policy of the moment it
\* is called.
C24_OptionsSetPolicies ==
  [][/\ opc = "new" => (postDataLogging' = TRUE /\ bodyLogging' = TRUE)
     /\ (opc = "calling" /\ opc' = "idle") =>
          /\ postDataLogging' = LastFor("postDataLogging", optArgs, postDataLogging)
          /\ bodyLogging' = LastFor("bodyLogging", optArgs, bodyLogging)
     /\ \A p \in Tasks :
          (pc[p] = "request" /\ pc'[p] # pc[p] /\ ~req[p].Skip /\ HasBody(req[p]))
            => /\ postDataLogging' = postDataLogging
               /\ (snapshots'[p] = snapshots[p] + 1) <=> postDataLogging
               /\ (pc'[p] = "marshal" /\ ~postDataLogging) =>
                     entry'[p].Request.PostData.Text = <<>>]_vars

\* Post-data capture was switched off, body capture was not, and a request
\* with a body was recorded without its body.
C24_Witness ==
  /\ opc = "idle"
  /\ postDataLogging = FALSE
  /\ bodyLogging = TRUE
  /\ pc[OptionTask] = "marshal"
  /\ HasBody(req[OptionTask])
  /\ snapshots[OptionTask] = 0
  /\ entry[OptionTask].Request.PostData.Text = <<>>

====
